---- MODULE Spec2Model ----
(***************************************************************************)
(* BlocklistWrapper (serverless-dns): the concurrency gate in front of the *)
(* blocklist download and trie construction.  Each caller is one           *)
(* invocation of RethinkModule on the single shared wrapper object.  Time  *)
(* is in milliseconds and is observed at the granularity of the 50 ms poll *)
(* sleep.  JavaScript runs every synchronous stretch of code atomically,   *)
(* so an action is one stretch between two awaits.                         *)
(*                                                                         *)
(* Spec is the wrapper with its callers, each construction seen as the     *)
(* three promises of Promise.all.  SpecLoader is one construction with     *)
(* every download of downloadBuildBlocklist and makeTd.  SpecEnv is        *)
(* EnvManager (src/core/env.js).  Each specification leaves the state of   *)
(* the other parts as it is.                                               *)
(***************************************************************************)
EXTENDS Integers, FiniteSets, Sequences, TLC

\* ---- bounds of the model ----
NumCallers == 3
MaxTime == 350
\* envutil.downloadTimeout(), configurable; scaled down from the 5000 default
DownloadTimeout == 100

Callers == 1..NumCallers

\* ---- program constants ----
waitms == 50

\* the three promises handed to Promise.all: filetag.json, td, rd.txt
Bufs == {"buf0", "buf1", "buf2"}

VARIABLES
  now,                            \* Date.now()
  blocklistFilter,                \* 0: nothing loaded; c: loaded by c's build
  td, rd, ft,                     \* null, or the downloaded buffers
  startTime,
  isBlocklistUnderConstruction,
  exceptionFrom,
  exceptionStack,
  pc,                             \* position of each RethinkModule call
  when,                           \* the call's local `now` / `when`
  totalWaitms,
  wakeAt,                         \* when the pending util.sleep fires
  downloads,                      \* state of buf0, buf1, buf2 of c's build
  outcome,                        \* how downloadBuildBlocklist settled
  response                        \* what the call returned

\* downloadBuildBlocklist and makeTd, download by download
VARIABLES
  tdParts,                        \* envutil.tdParts()
  tdNodecount,                    \* envutil.tdNodeCount()
  blocklistBasicConfig,
  fetched,                        \* url -> "pending" | "ok" | "fail"
  completed                       \* the urls in the order they completed

\* EnvManager
VARIABLES
  runtime,                        \* this.runtime
  procEnv,                        \* process.env / Deno.env / globalThis
  envMap,                         \* this.envMap
  env,                            \* globalThis.env
  called,                         \* the last EnvManager call
  returned                        \* what the last get returned

loaderVars == <<tdParts, tdNodecount, blocklistBasicConfig, fetched, completed>>

envVars == <<runtime, procEnv, envMap, env, called, returned>>

vars == <<now, blocklistFilter, td, rd, ft, startTime,
          isBlocklistUnderConstruction, exceptionFrom, exceptionStack,
          pc, when, totalWaitms, wakeAt, downloads, outcome, response,
          loaderVars, envVars>>

wrapperVars == <<blocklistFilter, td, rd, ft, startTime,
                 isBlocklistUnderConstruction, exceptionFrom, exceptionStack>>

\* td, rd, ft before any download (lines 19-21)
null == << >>

\* util.emptyResponse()
emptyResponse ==
  [hasFilter |-> FALSE, isException |-> FALSE,
   exceptionFrom |-> "", exceptionStack |-> ""]

\* util.errResponse(id, e): e.stack is named after the build that threw
ErrStack(c) == "Error@build" \o ToString(c)

errResponse(id, c) ==
  [hasFilter |-> FALSE, isException |-> TRUE,
   exceptionFrom |-> id, exceptionStack |-> ErrStack(c)]

\* response.data.blocklistFilter = this.blocklistFilter
filterResponse == [emptyResponse EXCEPT !.hasFilter = TRUE]

\* a || b on strings: the empty string is falsy
OrElse(a, b) == IF a = "" THEN b ELSE a

\* lines 78-80
timeoutResponse ==
  [hasFilter |-> FALSE, isException |-> TRUE,
   exceptionFrom |-> OrElse(exceptionFrom, "blocklistWrapper.js"),
   exceptionStack |-> OrElse(exceptionStack, "download timeout")]

\* variant: a loaded filter older than the rebuild threshold counts as absent
isBlocklistFilterSetup_Fresh ==
  blocklistFilter # 0 /\ now - startTime <= DownloadTimeout * 2

isBlocklistFilterSetup == blocklistFilter # 0

\* constructions whose initBlocklistConstruction has not returned yet
InFlight == {c \in Callers : pc[c] \in {"fetch", "settled"}}

\* a promise continuation is queued: it runs before any timer or request
MicrotaskPending == \E c \in Callers : pc[c] = "settled"

NoDownloads == [b \in Bufs |-> "none"]

\* blocklistBasicConfig before downloadBuildBlocklist has built it
NoConfig == [nodecount |-> 0, tdparts |-> 0]

\* no download issued; tdParts and tdNodecount at their configured defaults
LoaderIdle ==
  /\ tdParts = 2
  /\ tdNodecount = 42112224
  /\ blocklistBasicConfig = NoConfig
  /\ fetched = << >>
  /\ completed = << >>

\* JavaScript values.  A string is the sequence of its pieces: a decimal
\* digit is a piece of its own, any other run of text is one piece.
undefined == [t |-> "undefined", s |-> << >>, n |-> 0, b |-> FALSE]

jsnull == [t |-> "null", s |-> << >>, n |-> 0, b |-> FALSE]

NaN == [t |-> "NaN", s |-> << >>, n |-> 0, b |-> FALSE]

Str(x) == [t |-> "string", s |-> x, n |-> 0, b |-> FALSE]

Num(x) == [t |-> "number", s |-> << >>, n |-> x, b |-> FALSE]

Bool(x) == [t |-> "boolean", s |-> << >>, n |-> 0, b |-> x]

NoCall == [op |-> "none", key |-> "", value |-> undefined]

\* EnvManager not constructed
EnvIdle ==
  /\ runtime = "node"
  /\ procEnv = << >>
  /\ envMap = << >>
  /\ env = << >>
  /\ called = NoCall
  /\ returned = undefined

\* the wrapper after its constructor (lines 17-27), no call made yet
WrapperInit ==
  /\ now = 0
  /\ blocklistFilter = 0
  /\ td = null /\ rd = null /\ ft = null
  /\ startTime = 0
  /\ isBlocklistUnderConstruction = FALSE
  /\ exceptionFrom = ""
  /\ exceptionStack = ""
  /\ pc = [c \in Callers |-> "idle"]
  /\ when = [c \in Callers |-> 0]
  /\ totalWaitms = [c \in Callers |-> 0]
  /\ wakeAt = [c \in Callers |-> 0]
  /\ downloads = [c \in Callers |-> NoDownloads]
  /\ outcome = [c \in Callers |-> "none"]
  /\ response = [c \in Callers |-> emptyResponse]

Init ==
  /\ WrapperInit
  /\ LoaderIdle
  /\ EnvIdle

\* variant: the rebuild threshold is one downloadTimeout, not two
ShouldConstruct_Single ==
  \/ ~isBlocklistUnderConstruction
  \/ now - startTime > DownloadTimeout

\* variant: the rebuild threshold is inclusive
ShouldConstruct_Ge ==
  \/ ~isBlocklistUnderConstruction
  \/ now - startTime >= DownloadTimeout * 2

\* variant: no rebuild threshold, only the flag is looked at
ShouldConstruct_FlagOnly == ~isBlocklistUnderConstruction

\* the guard of line 45-49
ShouldConstruct ==
  \/ ~isBlocklistUnderConstruction
  \/ now - startTime > DownloadTimeout * 2

\* variant: a waiter that times out clears the construction flag
PollLoop_Cancel(c, t) ==
  IF t < DownloadTimeout
  THEN /\ IF isBlocklistFilterSetup
          THEN /\ pc' = [pc EXCEPT ![c] = "done"]
               /\ response' = [response EXCEPT ![c] = filterResponse]
               /\ UNCHANGED wakeAt
          ELSE /\ pc' = [pc EXCEPT ![c] = "sleep"]
               /\ wakeAt' = [wakeAt EXCEPT ![c] = now + waitms]
               /\ UNCHANGED response
       /\ UNCHANGED wrapperVars
  ELSE /\ pc' = [pc EXCEPT ![c] = "done"]
       /\ response' = [response EXCEPT ![c] = timeoutResponse]
       /\ isBlocklistUnderConstruction' = FALSE
       /\ UNCHANGED <<wakeAt, blocklistFilter, td, rd, ft, startTime,
                      exceptionFrom, exceptionStack>>

\* variant: the loop bound is inclusive, one more sleep
PollLoop_Le(c, t) ==
  /\ IF t <= DownloadTimeout
     THEN IF isBlocklistFilterSetup
          THEN /\ pc' = [pc EXCEPT ![c] = "done"]
               /\ response' = [response EXCEPT ![c] = filterResponse]
               /\ UNCHANGED wakeAt
          ELSE /\ pc' = [pc EXCEPT ![c] = "sleep"]
               /\ wakeAt' = [wakeAt EXCEPT ![c] = now + waitms]
               /\ UNCHANGED response
     ELSE /\ pc' = [pc EXCEPT ![c] = "done"]
          /\ response' = [response EXCEPT ![c] = timeoutResponse]
          /\ UNCHANGED wakeAt
  /\ UNCHANGED wrapperVars

\* The head of the poll loop (lines 69-76) and what follows it (78-80),
\* entered with the waiter's total wait t.  A waiter writes nothing to the
\* wrapper.
PollLoop(c, t) ==
  /\ IF t < DownloadTimeout
     THEN IF isBlocklistFilterSetup
          THEN /\ pc' = [pc EXCEPT ![c] = "done"]
               /\ response' = [response EXCEPT ![c] = filterResponse]
               /\ UNCHANGED wakeAt
          ELSE /\ pc' = [pc EXCEPT ![c] = "sleep"]
               /\ wakeAt' = [wakeAt EXCEPT ![c] = now + waitms]
               /\ UNCHANGED response
     ELSE /\ pc' = [pc EXCEPT ![c] = "done"]
          /\ response' = [response EXCEPT ![c] = timeoutResponse]
          /\ UNCHANGED wakeAt
  /\ UNCHANGED wrapperVars

\* RethinkModule up to its first await (lines 34-74), with the synchronous
\* head of initBlocklistConstruction and downloadBuildBlocklist (120-185).
\* Calls are numbered in their order of arrival.
RethinkModule(c) ==
  /\ pc[c] = "idle"
  /\ \A d \in Callers : d < c => pc[d] # "idle"
  /\ ~MicrotaskPending
  /\ IF isBlocklistFilterSetup
     THEN /\ pc' = [pc EXCEPT ![c] = "done"]
          /\ response' = [response EXCEPT ![c] = filterResponse]
          /\ UNCHANGED <<wrapperVars, when, totalWaitms, wakeAt, downloads>>
     ELSE IF ShouldConstruct
     THEN /\ isBlocklistUnderConstruction' = TRUE
          /\ startTime' = now
          /\ when' = [when EXCEPT ![c] = now]
          /\ pc' = [pc EXCEPT ![c] = "fetch"]
          /\ downloads' = [downloads EXCEPT ![c] = [b \in Bufs |-> "pending"]]
          /\ UNCHANGED <<blocklistFilter, td, rd, ft, exceptionFrom,
                         exceptionStack, totalWaitms, wakeAt, response>>
     ELSE /\ totalWaitms' = [totalWaitms EXCEPT ![c] = 0]
          /\ PollLoop(c, 0)
          /\ UNCHANGED <<when, downloads>>
  /\ UNCHANGED <<now, outcome, loaderVars, envVars>>

\* util.sleep(waitms) returns: lines 75, then the loop head again
Wake(c) ==
  /\ pc[c] = "sleep"
  /\ ~MicrotaskPending
  /\ now >= wakeAt[c]
  /\ totalWaitms' = [totalWaitms EXCEPT ![c] = @ + waitms]
  /\ PollLoop(c, totalWaitms[c] + waitms)
  /\ UNCHANGED <<now, when, downloads, outcome, loaderVars, envVars>>

\* One of the three downloads of c's build resolves.  When it is the last
\* one, Promise.all resolves and lines 189-206 run: td, rd, ft are assigned
\* and createBlocklistFilter either returns the trie or throws.  The
\* buffers of c's downloads are named <<c>>.
FetchOk(c, b) ==
  /\ pc[c] = "fetch"
  /\ ~MicrotaskPending
  /\ downloads[c][b] = "pending"
  /\ downloads' = [downloads EXCEPT ![c][b] = "ok"]
  /\ IF \A x \in Bufs \ {b} : downloads[c][x] = "ok"
     THEN /\ td' = <<c>> /\ rd' = <<c>> /\ ft' = <<c>>
          /\ \E o \in {"ok", "triefail"} : outcome' = [outcome EXCEPT ![c] = o]
          /\ pc' = [pc EXCEPT ![c] = "settled"]
     ELSE UNCHANGED <<td, rd, ft, outcome, pc>>
  /\ UNCHANGED <<now, blocklistFilter, startTime,
                 isBlocklistUnderConstruction, exceptionFrom, exceptionStack,
                 when, totalWaitms, wakeAt, response, loaderVars, envVars>>

\* One download throws (non-OK status, lines 219-222): Promise.all rejects.
FetchFail(c, b) ==
  /\ pc[c] = "fetch"
  /\ ~MicrotaskPending
  /\ downloads[c][b] = "pending"
  /\ downloads' = [downloads EXCEPT ![c][b] = "fail"]
  /\ outcome' = [outcome EXCEPT ![c] = "fetchfail"]
  /\ pc' = [pc EXCEPT ![c] = "settled"]
  /\ UNCHANGED <<now, wrapperVars, when, totalWaitms, wakeAt, response,
                 loaderVars, envVars>>

\* variant: the construction flag is cleared inside the try block only
FinishConstruction_KeepFlag(c) ==
  /\ pc[c] = "settled"
  /\ IF outcome[c] = "ok"
     THEN /\ blocklistFilter' = c
          /\ response' = [response EXCEPT ![c] = filterResponse]
          /\ isBlocklistUnderConstruction' = FALSE
          /\ UNCHANGED <<exceptionFrom, exceptionStack>>
     ELSE /\ response' = [response EXCEPT ![c] =
                             errResponse("initBlocklistConstruction", c)]
          /\ exceptionFrom' = "initBlocklistConstruction"
          /\ exceptionStack' = ErrStack(c)
          /\ UNCHANGED <<blocklistFilter, isBlocklistUnderConstruction>>
  /\ pc' = [pc EXCEPT ![c] = "done"]
  /\ downloads' = [downloads EXCEPT ![c] = NoDownloads]
  /\ UNCHANGED <<now, td, rd, ft, startTime, when, totalWaitms, wakeAt,
                 outcome, loaderVars, envVars>>

\* variant: the builder's return is cut off at downloadTimeout like a waiter's
FinishConstruction_Timed(c) ==
  /\ pc[c] = "settled"
  /\ IF outcome[c] = "ok"
     THEN /\ blocklistFilter' = c
          /\ response' = [response EXCEPT ![c] =
                 IF now - when[c] >= DownloadTimeout
                 THEN timeoutResponse ELSE filterResponse]
          /\ UNCHANGED <<exceptionFrom, exceptionStack>>
     ELSE /\ response' = [response EXCEPT ![c] =
                             errResponse("initBlocklistConstruction", c)]
          /\ exceptionFrom' = "initBlocklistConstruction"
          /\ exceptionStack' = ErrStack(c)
          /\ UNCHANGED blocklistFilter
  /\ isBlocklistUnderConstruction' = FALSE
  /\ pc' = [pc EXCEPT ![c] = "done"]
  /\ downloads' = [downloads EXCEPT ![c] = NoDownloads]
  /\ UNCHANGED <<now, td, rd, ft, startTime, when, totalWaitms, wakeAt,
                 outcome, loaderVars, envVars>>

\* initBlocklistConstruction after its await (lines 133-157), and the
\* return of RethinkModule (line 51).
FinishConstruction(c) ==
  /\ pc[c] = "settled"
  /\ IF outcome[c] = "ok"
     THEN /\ blocklistFilter' = c
          /\ response' = [response EXCEPT ![c] = filterResponse]
          /\ UNCHANGED <<exceptionFrom, exceptionStack>>
     ELSE /\ response' = [response EXCEPT ![c] =
                             errResponse("initBlocklistConstruction", c)]
          /\ exceptionFrom' = "initBlocklistConstruction"
          /\ exceptionStack' = ErrStack(c)
          /\ UNCHANGED blocklistFilter
  /\ isBlocklistUnderConstruction' = FALSE
  /\ pc' = [pc EXCEPT ![c] = "done"]
  /\ downloads' = [downloads EXCEPT ![c] = NoDownloads]
  /\ UNCHANGED <<now, td, rd, ft, startTime, when, totalWaitms, wakeAt,
                 outcome, loaderVars, envVars>>

\* a timer that is due fires before the clock moves on
TimerDue == \E c \in Callers : pc[c] = "sleep" /\ wakeAt[c] <= now

Tick ==
  /\ now + waitms <= MaxTime
  /\ ~MicrotaskPending
  /\ ~TimerDue
  /\ now' = now + waitms
  /\ UNCHANGED <<wrapperVars, pc, when, totalWaitms, wakeAt, downloads,
                 outcome, response, loaderVars, envVars>>

Next ==
  \/ \E c \in Callers : RethinkModule(c)
  \/ \E c \in Callers : Wake(c)
  \/ \E c \in Callers, b \in Bufs : FetchOk(c, b)
  \/ \E c \in Callers, b \in Bufs : FetchFail(c, b)
  \/ \E c \in Callers : FinishConstruction(c)
  \/ Tick

Spec == Init /\ [][Next]_vars

\* ---- one construction, download by download ----

\* largest configured tdParts explored
MaxTdParts == 2

blocklistUrl == "https://dist.rethinkdns.com/blocklists/"

latestTimestamp == "1638959365361"

\* line 170
baseurl == blocklistUrl \o latestTimestamp

\* x || d on numbers: 0 is falsy
NumOrElse(x, d) == IF x = 0 THEN d ELSE x

\* toLocaleString("en-US", {minimumIntegerDigits: 2, useGrouping: false})
TwoDigits(i) == IF i < 10 THEN "0" \o ToString(i) ELSE ToString(i)

PartUrl(i) == baseurl \o "/td" \o TwoDigits(i) \o ".txt"

FiletagUrl == baseurl \o "/filetag.json"

RdUrl == baseurl \o "/rd.txt"

TdUrl == baseurl \o "/td.txt"

\* the fetches makeTd issues, in the order of their promises (235-251)
tdpromises(n) ==
  IF n <= -1 THEN <<TdUrl>> ELSE [i \in 1..(n + 1) |-> PartUrl(i - 1)]

\* the fetches behind buf0, buf1, buf2 (183-185)
BufPromises(b, n) ==
  CASE b = "buf0" -> <<FiletagUrl>>
    [] b = "buf1" -> tdpromises(n)
    [] b = "buf2" -> <<RdUrl>>

Range(q) == {q[i] : i \in DOMAIN q}

\* every fetch of a construction with basic config tdparts n
IssuedUrls(n) == UNION {Range(BufPromises(b, n)) : b \in Bufs}

\* the body of a successful download, named after its url
Body(u) == <<u>>

\* variant: the results come in the order the promises completed
AllResults_Arrival(ps, arrival) ==
  LET mine == SelectSeq(arrival, LAMBDA u : u \in Range(ps))
  IN  [i \in DOMAIN mine |-> Body(mine[i])]

\* Promise.all: the results in the order of the promises
AllResults(ps, arrival) == [i \in DOMAIN ps |-> Body(ps[i])]

\* bufutil.concat: the buffers joined in the order of the array
RECURSIVE concat(_)
concat(bufs) ==
  IF bufs = << >> THEN << >> ELSE Head(bufs) \o concat(Tail(bufs))

\* what makeTd resolves to (232-262)
makeTd(n, arrival) ==
  IF n <= -1 THEN Body(TdUrl) ELSE concat(AllResults(tdpromises(n), arrival))

\* lines 191-193, over the result of Promise.all([buf0, buf1, buf2])
Assigned(all) == [td |-> all[2], rd |-> all[3], ft |-> all[1]]

\* variant: the status of the response is not looked at
Throws_Never(st) == FALSE

\* fileFetch throws on a response that is not ok (219-222)
Throws(st) == st = "fail"

\* every fetch behind b has completed
BufResolved(b, f) ==
  \A u \in Range(BufPromises(b, blocklistBasicConfig.tdparts)) : f[u] # "pending"

\* the buf a fetch belongs to
BufOf(u) ==
  CHOOSE b \in Bufs : u \in Range(BufPromises(b, blocklistBasicConfig.tdparts))

\* call 1 takes the construct branch of RethinkModule on the new wrapper:
\* lines 120-121 and 167-185, every fetch issued
LoaderStart ==
  /\ pc[1] = "idle"
  /\ ~isBlocklistFilterSetup
  /\ ShouldConstruct
  /\ isBlocklistUnderConstruction' = TRUE
  /\ startTime' = now
  /\ when' = [when EXCEPT ![1] = now]
  /\ pc' = [pc EXCEPT ![1] = "fetch"]
  /\ downloads' = [downloads EXCEPT ![1] = [b \in Bufs |-> "pending"]]
  /\ blocklistBasicConfig' = [nodecount |-> NumOrElse(tdNodecount, -1),
                              tdparts |-> NumOrElse(tdParts, -1)]
  /\ fetched' = [u \in IssuedUrls(blocklistBasicConfig'.tdparts) |-> "pending"]
  /\ UNCHANGED <<now, blocklistFilter, td, rd, ft, exceptionFrom,
                 exceptionStack, totalWaitms, wakeAt, outcome, response,
                 tdParts, tdNodecount, completed, envVars>>

\* One fetch completes with status st.  A throw rejects Promise.all at
\* once; the last resolution runs lines 189-206.  A fetch that completes
\* after Promise.all has settled changes nothing.
UrlDone(u, st) ==
  /\ u \in DOMAIN fetched
  /\ fetched[u] = "pending"
  /\ ~MicrotaskPending
  /\ fetched' = [fetched EXCEPT ![u] = st]
  /\ completed' = Append(completed, u)
  /\ IF pc[1] # "fetch"
     THEN UNCHANGED <<td, rd, ft, downloads, outcome, pc>>
     ELSE IF Throws(st)
     THEN /\ downloads' = [downloads EXCEPT ![1][BufOf(u)] = "fail"]
          /\ outcome' = [outcome EXCEPT ![1] = "fetchfail"]
          /\ pc' = [pc EXCEPT ![1] = "settled"]
          /\ UNCHANGED <<td, rd, ft>>
     ELSE /\ downloads' = [downloads EXCEPT ![1] =
                 [b \in Bufs |-> IF BufResolved(b, fetched')
                                 THEN "ok" ELSE "pending"]]
          /\ IF \A b \in Bufs : BufResolved(b, fetched')
             THEN LET all == <<Body(FiletagUrl),
                               makeTd(blocklistBasicConfig.tdparts, completed'),
                               Body(RdUrl)>>
                  IN  /\ td' = Assigned(all).td
                      /\ rd' = Assigned(all).rd
                      /\ ft' = Assigned(all).ft
                      /\ \E o \in {"ok", "triefail"} :
                           outcome' = [outcome EXCEPT ![1] = o]
                      /\ pc' = [pc EXCEPT ![1] = "settled"]
             ELSE UNCHANGED <<td, rd, ft, outcome, pc>>
  /\ UNCHANGED <<now, blocklistFilter, startTime,
                 isBlocklistUnderConstruction, exceptionFrom, exceptionStack,
                 when, totalWaitms, wakeAt, response,
                 tdParts, tdNodecount, blocklistBasicConfig, envVars>>

\* every url a construction of the explored configurations can fetch
AllUrls == UNION {IssuedUrls(n) : n \in (0 - MaxTdParts)..MaxTdParts}

\* the configuration the construction is run with
InitLoader ==
  /\ WrapperInit
  /\ EnvIdle
  /\ tdParts \in (0 - MaxTdParts)..MaxTdParts
  /\ tdNodecount \in {0, 42112224}
  /\ blocklistBasicConfig = NoConfig
  /\ fetched = << >>
  /\ completed = << >>

NextLoader ==
  \/ LoaderStart
  \/ \E u \in AllUrls, st \in {"ok", "fail"} : UrlDone(u, st)
  \/ FinishConstruction(1)

SpecLoader == InitLoader /\ [][NextLoader]_vars

\* ---- EnvManager ----

Runtimes == {"node", "deno", "worker"}

\* the internal names of _ENV_VAR_MAPPINGS, all of them typed
Keys ==
  {"runTime", "runTimeEnv", "cloudPlatform", "logLevel", "blocklistUrl",
   "latestTimestamp", "dnsResolverUrl", "secondaryDohResolver",
   "workerTimeout", "fetchTimeout", "tdNodecount", "tdParts", "cacheTtl"}

\* mappedKey.name, per runtime where the table says so (lines 119-123)
MappedName(key, rt) ==
  CASE key = "runTime" -> "RUNTIME"
    [] key = "runTimeEnv" ->
         (CASE rt = "worker" -> "WORKER_ENV"
            [] rt = "node" -> "NODE_ENV"
            [] rt = "deno" -> "DENO_ENV")
    [] key = "cloudPlatform" -> "CLOUD_PLATFORM"
    [] key = "logLevel" -> "LOG_LEVEL"
    [] key = "blocklistUrl" -> "CF_BLOCKLIST_URL"
    [] key = "latestTimestamp" -> "CF_LATEST_BLOCKLIST_TIMESTAMP"
    [] key = "dnsResolverUrl" -> "CF_DNS_RESOLVER_URL"
    [] key = "secondaryDohResolver" -> "CF_DNS_RESOLVER_URL_2"
    [] key = "workerTimeout" -> "WORKER_TIMEOUT"
    [] key = "fetchTimeout" -> "CF_BLOCKLIST_DOWNLOAD_TIMEOUT"
    [] key = "tdNodecount" -> "TD_NODE_COUNT"
    [] key = "tdParts" -> "TD_PARTS"
    [] key = "cacheTtl" -> "CACHE_TTL"

MappedType(key) ==
  IF key \in {"workerTimeout", "fetchTimeout", "tdNodecount", "tdParts",
              "cacheTtl"}
  THEN "number" ELSE "string"

\* mappedKey.default (lines 124-128); runTime has none
MappedDefault(key, rt) ==
  CASE key = "runTime" -> undefined
    [] key = "runTimeEnv" -> Str(<<"development">>)
    [] key = "cloudPlatform" -> Str(<<"fly">>)
    [] key = "logLevel" -> Str(<<"debug">>)
    [] key = "blocklistUrl" -> Str(<<blocklistUrl>>)
    [] key = "latestTimestamp" -> Str(<<latestTimestamp>>)
    [] key = "dnsResolverUrl" -> Str(<<"https://cloudflare-dns.com/dns-query">>)
    [] key = "secondaryDohResolver" -> Str(<<"https://dns.google/dns-query">>)
    [] key = "workerTimeout" -> Str(<<"1", "0", "0", "0", "0">>)
    [] key = "fetchTimeout" -> Str(<<"5", "0", "0", "0">>)
    [] key = "tdNodecount" -> Str(<<"4", "2", "1", "1", "2", "2", "2", "4">>)
    [] key = "tdParts" -> Str(<<"2">>)
    [] key = "cacheTtl" -> Str(<<"1", "8", "0", "0">>)

Digits == <<"0", "1", "2", "3", "4", "5", "6", "7", "8", "9">>

IsDigit(ch) == \E i \in DOMAIN Digits : Digits[i] = ch

DigitVal(ch) == (CHOOSE i \in DOMAIN Digits : Digits[i] = ch) - 1

\* the value of a string of decimal digits
RECURSIVE Decimal(_)
Decimal(x) ==
  IF x = << >> THEN 0
  ELSE Decimal(SubSeq(x, 1, Len(x) - 1)) * Len(Digits) + DigitVal(x[Len(x)])

\* Number(v)
Number(v) ==
  CASE v.t = "number" -> v
    [] v.t = "NaN" -> v
    [] v.t = "undefined" -> NaN
    [] v.t = "null" -> Num(0)
    [] v.t = "boolean" -> Num(IF v.b THEN 1 ELSE 0)
    [] v.t = "string" ->
         IF \A i \in DOMAIN v.s : IsDigit(v.s[i])
         THEN Num(Decimal(v.s)) ELSE NaN

\* !v
Falsy(v) ==
  \/ v.t \in {"undefined", "null", "NaN"}
  \/ v.t = "string" /\ v.s = << >>
  \/ v.t = "number" /\ v.n = 0
  \/ v.t = "boolean" /\ ~v.b

\* v == null
Nullish(v) == v.t \in {"undefined", "null"}

\* process.env[name], Deno.env.get(name), globalThis[name]
RuntimeVar(name) ==
  IF name \in DOMAIN procEnv THEN Str(procEnv[name]) ELSE undefined

\* lines 138-141; the name of a mapping is never empty
ReadEnv(key, rt) ==
  IF rt = "deno" /\ MappedName(key, rt) = ""
  THEN Str(<< >>)
  ELSE RuntimeVar(MappedName(key, rt))

\* variant: the default replaces every falsy value
OrDefault_Falsy(raw, val) ==
  IF Falsy(raw) /\ ~Nullish(val) THEN val ELSE raw

\* lines 144-147
OrDefault(raw, val) ==
  IF Nullish(raw) /\ ~Nullish(val) THEN val ELSE raw

\* lines 150-153
Cast(type, v) ==
  CASE type = "boolean" -> Bool(v = Str(<<"true">>))
    [] type = "number" -> Number(v)
    [] type = "string" -> IF Falsy(v) THEN Str(<< >>) ELSE v

\* _getRuntimeEnv(runtime)
getRuntimeEnv(rt) ==
  [key \in Keys |->
     Cast(MappedType(key),
          OrDefault(ReadEnv(key, rt), MappedDefault(key, rt)))]

\* renv of load(), with the deno fix of lines 194-197
Renv(rt) ==
  LET renv == getRuntimeEnv(rt)
  IN  IF rt = "deno" /\ Falsy(renv["runTime"])
      THEN [renv EXCEPT !["runTime"] = Str(<<"deno">>)]
      ELSE renv

\* Map.set / property assignment
Put(m, key, value) ==
  [k \in DOMAIN m \cup {key} |-> IF k = key THEN value ELSE m[k]]

\* EnvManager.load(): globalThis.env is replaced, envMap is written entry
\* by entry
load ==
  /\ env' = Renv(runtime)
  /\ envMap' = [k \in DOMAIN envMap \cup Keys |->
                  IF k \in Keys THEN Renv(runtime)[k] ELSE envMap[k]]
  /\ called' = [op |-> "load", key |-> "", value |-> undefined]
  /\ UNCHANGED <<runtime, procEnv, returned>>
  /\ UNCHANGED <<now, wrapperVars, pc, when, totalWaitms, wakeAt, downloads,
                 outcome, response, loaderVars>>

\* EnvManager.set(key, value)
set(key, value) ==
  /\ envMap' = Put(envMap, key, value)
  /\ env' = Put(env, key, value)
  /\ called' = [op |-> "set", key |-> key, value |-> value]
  /\ UNCHANGED <<runtime, procEnv, returned>>
  /\ UNCHANGED <<now, wrapperVars, pc, when, totalWaitms, wakeAt, downloads,
                 outcome, response, loaderVars>>

\* what EnvManager.get(key) returns (lines 226-239)
getReturn(key) ==
  LET v == IF key \in DOMAIN envMap THEN envMap[key] ELSE undefined
  IN  IF ~Falsy(v) THEN v
      ELSE IF runtime \in Runtimes THEN RuntimeVar(key)
      ELSE jsnull

\* EnvManager.get(key)
get(key) ==
  /\ returned' = getReturn(key)
  /\ called' = [op |-> "get", key |-> key, value |-> undefined]
  /\ UNCHANGED <<runtime, procEnv, envMap, env>>
  /\ UNCHANGED <<now, wrapperVars, pc, when, totalWaitms, wakeAt, downloads,
                 outcome, response, loaderVars>>

\* the runtime variables explored, and their values: empty, a number, text
RuntimeNames ==
  {"CF_BLOCKLIST_DOWNLOAD_TIMEOUT", "CF_BLOCKLIST_URL", "DENO_ENV", "FOO"}

RuntimeValues == {<< >>, <<"1", "2">>, <<"bar">>}

\* the keys and values handed to set and get
CallKeys == {"FOO", "fetchTimeout"}

CallValues == {Num(0), Bool(FALSE), Str(<< >>), Str(<<"x">>)}

\* after new EnvManager() (lines 179-183) on some runtime
InitEnv ==
  /\ WrapperInit
  /\ LoaderIdle
  /\ runtime \in Runtimes
  /\ \E names \in SUBSET RuntimeNames : procEnv \in [names -> RuntimeValues]
  /\ env = Renv(runtime)
  /\ envMap = Renv(runtime)
  /\ called = [op |-> "load", key |-> "", value |-> undefined]
  /\ returned = undefined

NextEnv ==
  \/ load
  \/ \E key \in CallKeys, value \in CallValues : set(key, value)
  \/ \E key \in CallKeys : get(key)

SpecEnv == InitEnv /\ [][NextEnv]_vars

\* ---- vocabulary of the properties ----

\* c's call enters RethinkModule in this step
Arrives(c) == pc[c] = "idle" /\ pc'[c] # "idle"

\* c's construction returns in this step
Finishes(c) == pc[c] = "settled" /\ pc'[c] = "done"

\* c's sleep returns in this step
Polls(c) == pc[c] = "sleep" /\ totalWaitms'[c] # totalWaitms[c]

\* c's wait loop ends on the timeout path in this step
TimesOut(c) == Polls(c) /\ pc'[c] = "done" /\ response'[c].isException

\* c took the construct branch
IsBuilder(c) == pc[c] \in {"fetch", "settled"} \/ outcome[c] # "none"

\* c returned from the check of line 37 without waiting or constructing
ServedReady(c) ==
  /\ pc[c] = "done" /\ response[c] = filterResponse
  /\ ~IsBuilder(c) /\ wakeAt[c] = 0

\* ceil(downloadTimeout / waitms)
MaxSleeps == (DownloadTimeout + waitms - 1) \div waitms

\* ---- C1 ----

\* C1 as stated: at most one construction is in flight in every reachable
\* state, whatever the arrival times of the callers and however long a
\* construction takes.
C1_AtMostOneAnyDuration == Cardinality(InFlight) <= 1

\* no construction in flight is older than 2 * downloadTimeout
SettlesInTime ==
  \A c \in InFlight : now - when[c] <= DownloadTimeout * 2

\* C1, amended: as long as every construction settles no later than
\* 2 * downloadTimeout after its start, no two constructions are in flight
\* at the same time, whatever the number and arrival times of the callers.
C1_AtMostOneTimely ==
  []SettlesInTime => [](\A c1, c2 \in InFlight : c1 = c2)

\* a caller sleeps in the wait loop, past its first poll, while the one
\* construction is still downloading
C1_Witness ==
  \E b, w \in Callers :
    /\ pc[b] = "fetch" /\ pc[w] = "sleep"
    /\ totalWaitms[w] > 0
    /\ now - startTime >= DownloadTimeout

\* ---- C2 ----

\* C2 as stated: the wrapper starts Empty and call 1 is the first caller;
\* every other call that arrives no later than 2 * downloadTimeout after
\* call 1's start takes the wait branch, issues no fetch, and call 1's
\* construction is the only one.
C2_ColdStartWithinWindow ==
  [][\A c \in Callers \ {1} :
       (Arrives(c) /\ now - when[1] <= DownloadTimeout * 2)
         => /\ pc'[c] = "sleep"
            /\ downloads'[c] = NoDownloads
            /\ \A d \in Callers \ {1} : ~IsBuilder(d)']_vars

\* C2, amended: every other call that arrives no later than
\* 2 * downloadTimeout after call 1's start and while call 1's construction
\* is still in flight takes the wait branch and issues no fetch; call 1's
\* construction is then the only one that has run.
C2_ColdStartWhileBuilding ==
  [][\A c \in Callers \ {1} :
       (Arrives(c) /\ pc[1] = "fetch" /\ now - when[1] <= DownloadTimeout * 2)
         => /\ pc'[c] = "sleep"
            /\ downloads'[c] = NoDownloads
            /\ \A d \in Callers \ {1} : ~IsBuilder(d)']_vars

\* all the other callers are waiting on call 1's construction, the last of
\* them having arrived in the second half of the window
C2_Witness ==
  /\ pc[1] = "fetch"
  /\ \A c \in Callers \ {1} : pc[c] = "sleep"
  /\ totalWaitms[NumCallers] = 0
  /\ wakeAt[NumCallers] - waitms - when[1] > DownloadTimeout

\* ---- C3 ----

\* C3: once the filter is loaded it stays loaded, and every call arriving
\* then returns the filter with no exception, goes neither to sleep nor
\* into a construction, and leaves the wrapper as it found it.
C3_ReadyAbsorbing ==
  [][/\ blocklistFilter # 0 => blocklistFilter' # 0
     /\ \A c \in Callers :
          (Arrives(c) /\ blocklistFilter # 0)
            => /\ pc'[c] = "done"
               /\ response'[c] = filterResponse
               /\ InFlight' = InFlight
               /\ downloads' = downloads
               /\ UNCHANGED wrapperVars]_vars

\* a call was served from a loaded filter more than 2 * downloadTimeout
\* after startTime
C3_Witness ==
  /\ blocklistFilter # 0
  /\ now - startTime > DownloadTimeout * 2
  /\ \E c \in Callers : ServedReady(c)

\* ---- C4 ----

\* C4 as stated: from the first successful construction on, the loaded
\* filter and td, rd, ft are never written again.
C4_SnapshotImmutable ==
  [][blocklistFilter # 0 => UNCHANGED <<blocklistFilter, td, rd, ft>>]_vars

\* ---- C5 ----

\* the wrapper and the builder's response record the failure of c's
\* construction
RecordsFailure(c) ==
  /\ isBlocklistUnderConstruction' = FALSE
  /\ exceptionFrom' = "initBlocklistConstruction"
  /\ exceptionStack' = ErrStack(c)
  /\ response'[c].isException /\ ~response'[c].hasFilter
  /\ response'[c].exceptionStack = ErrStack(c)

\* C5 as stated: whenever a construction fails the wrapper is Empty
\* afterwards: the flag is false, the failure is recorded, the filter is
\* not set up, the builder gets an error, and a call arriving in that
\* state constructs.
C5_FailureReturnsToEmpty ==
  [][\A c \in Callers :
       (Finishes(c) /\ outcome[c] # "ok")
         => /\ RecordsFailure(c)
            /\ blocklistFilter' = 0
            /\ ShouldConstruct']_vars

\* C5, amended: when a construction fails while the filter is not set up,
\* the flag becomes false, the failure is recorded, the filter stays not
\* set up and the builder gets an error; and a call that arrives while the
\* flag is false and the filter is not set up starts a construction.
C5_FailureWhileNotSetup ==
  [][/\ \A c \in Callers :
          (Finishes(c) /\ outcome[c] # "ok" /\ blocklistFilter = 0)
            => /\ RecordsFailure(c)
               /\ blocklistFilter' = 0
               /\ ShouldConstruct'
     /\ \A c \in Callers :
          (Arrives(c) /\ ~isBlocklistUnderConstruction /\ blocklistFilter = 0)
            => /\ pc'[c] = "fetch"
               /\ isBlocklistUnderConstruction'
               /\ startTime' = now]_vars

\* a construction has failed and a later call has started the retry
C5_Witness ==
  \E a, b \in Callers :
    /\ a < b
    /\ pc[a] = "done" /\ response[a].exceptionStack = ErrStack(a)
    /\ pc[b] = "fetch" /\ InFlight = {b}
    /\ exceptionStack = ErrStack(a) /\ blocklistFilter = 0

\* ---- C6 ----

\* the last construction failed and nothing is in flight or loaded
BuildFailed ==
  /\ InFlight = {} /\ ~isBlocklistUnderConstruction
  /\ blocklistFilter = 0 /\ exceptionStack # ""

\* C6 as stated: a waiter whose poll comes after the in-flight construction
\* failed stops polling at that poll and returns the failure.
C6_FailureEndsWait ==
  [][\A c \in Callers :
       (Polls(c) /\ BuildFailed)
         => /\ pc'[c] = "done"
            /\ response'[c].isException
            /\ response'[c].exceptionStack = exceptionStack]_vars

\* ---- C7 ----

\* C7 as stated: a waiter whose poll comes after the construction succeeded
\* returns the filter and no error at that poll.
C7_SuccessSeenAtNextPoll ==
  [][\A c \in Callers :
       (Polls(c) /\ blocklistFilter # 0)
         => /\ pc'[c] = "done"
            /\ response'[c] = filterResponse]_vars

\* ---- C8 ----

\* C8: a waiter's timeout leaves the wrapper, every construction and every
\* other call as they were; a construction that succeeds, however late,
\* loads the filter, and a call arriving after that returns it.
C8_TimeoutLeavesBuilder ==
  [][/\ \A c \in Callers :
          TimesOut(c)
            => /\ UNCHANGED <<wrapperVars, downloads, outcome, when, now>>
               /\ InFlight' = InFlight
               /\ \A d \in Callers \ {c} : pc'[d] = pc[d]
     /\ \A c \in Callers :
          (Finishes(c) /\ outcome[c] = "ok") => blocklistFilter' = c
     /\ \A c \in Callers :
          (Arrives(c) /\ blocklistFilter # 0)
            => response'[c] = filterResponse]_vars

\* a waiter got the timeout error, the construction it waited on succeeded
\* between one and two timeouts after its start, and a later call was
\* served the filter
C8_Witness ==
  \E b, w, c \in Callers :
    /\ b < w /\ w < c
    /\ pc[w] = "done" /\ totalWaitms[w] >= DownloadTimeout
    /\ response[w].isException
    /\ response[w].exceptionStack = "download timeout"
    /\ blocklistFilter = b /\ outcome[b] = "ok"
    /\ now - when[b] > DownloadTimeout
    /\ now - when[b] <= DownloadTimeout * 2
    /\ ServedReady(c)

\* ---- C9 ----

\* C9: a call in the wait branch has slept at most
\* ceil(downloadTimeout / 50) times, 50 ms each, and sleeps again only
\* below that count; when it returns, its response carries either the
\* filter and no exception or an exception and no filter.
C9_WaitBounded ==
  [][\A c \in Callers :
       ((Arrives(c) /\ pc'[c] = "sleep") \/ Polls(c))
         => /\ totalWaitms'[c] <= MaxSleeps * waitms
            /\ pc'[c] = "sleep" =>
                 /\ totalWaitms'[c] < MaxSleeps * waitms
                 /\ wakeAt'[c] = now + waitms
            /\ pc'[c] \in {"sleep", "done"}
            /\ pc'[c] = "done" =>
                 \/ response'[c] = filterResponse
                 \/ /\ response'[c].isException
                    /\ ~response'[c].hasFilter]_vars

\* a waiter returned an exception after the full number of sleeps, and
\* another returned the filter from the loop
C9_Witness ==
  \E v, w \in Callers :
    /\ pc[v] = "done" /\ totalWaitms[v] = MaxSleeps * waitms
    /\ response[v].isException
    /\ pc[w] = "done" /\ wakeAt[w] # 0 /\ ~IsBuilder(w)
    /\ response[w] = filterResponse

\* ---- C10 ----

\* the construction w waited on: the latest one started before w arrived
WaitedOn(w) ==
  CHOOSE b \in Callers :
    /\ b < w /\ IsBuilder(b)
    /\ \A d \in Callers : (d < w /\ IsBuilder(d)) => d <= b

\* C10 as stated: a waiter that times out returns 'download timeout' from
\* 'blocklistWrapper.js' unless the construction it waited on has failed,
\* and then it returns that construction's exception.
C10_TimeoutReportsOwnBuild ==
  [][\A w \in Callers :
       TimesOut(w)
         => IF pc[WaitedOn(w)] = "done" /\ outcome[WaitedOn(w)] # "ok"
            THEN response'[w].exceptionStack
                   \in {ErrStack(WaitedOn(w)), "download timeout"}
            ELSE /\ response'[w].exceptionStack = "download timeout"
                 /\ response'[w].exceptionFrom = "blocklistWrapper.js"]_vars

\* ---- C11 ----

\* some fetch of the construction returned a status that is not ok
SomeFetchFailed == \E u \in DOMAIN fetched : fetched[u] = "fail"

\* C11: once any fetch of the construction has failed, in whatever order
\* the fetches complete, the construction is aborted with an error: td,
\* rd, ft stay null and the filter stays unloaded, and the builder's
\* response is that error; the filter is loaded only when filetag.json,
\* rd.txt and every td fetch succeeded.
C11_FetchFailureAborts ==
  /\ SomeFetchFailed
       => /\ td = null /\ rd = null /\ ft = null
          /\ blocklistFilter = 0
          /\ outcome[1] = "fetchfail"
          /\ pc[1] \in {"settled", "done"}
          /\ pc[1] = "done"
               => /\ response[1].isException /\ ~response[1].hasFilter
                  /\ exceptionStack = ErrStack(1)
  /\ blocklistFilter # 0
       => /\ {FiletagUrl, RdUrl} \subseteq DOMAIN fetched
          /\ DOMAIN fetched \ {FiletagUrl, RdUrl} # {}
          /\ \A u \in DOMAIN fetched : fetched[u] = "ok"

\* the construction has returned its error; the failed fetch was a td part
\* and completed last, after every other fetch had succeeded
C11_Witness ==
  /\ pc[1] = "done" /\ response[1].isException
  /\ blocklistBasicConfig.tdparts >= 1
  /\ Len(completed) = Cardinality(DOMAIN fetched)
  /\ fetched[PartUrl(0)] = "fail"
  /\ completed[Len(completed)] = PartUrl(0)

\* ---- C12 ----

\* the td fetches of the construction
TdFetches == DOMAIN fetched \ {FiletagUrl, RdUrl}

\* C12 as stated: with tdParts <= -1 the only td fetch is td.txt; with
\* tdParts >= 0 the td fetches are exactly td00.txt .. td{tdParts}.txt,
\* tdParts + 1 of them; the basic config carries the configured tdParts.
C12_TdFetchesAsConfigured ==
  pc[1] # "idle"
    => /\ tdParts <= -1 => TdFetches = {TdUrl}
       /\ tdParts >= 0
            => /\ TdFetches = {PartUrl(i) : i \in 0..tdParts}
               /\ Cardinality(TdFetches) = tdParts + 1
       /\ blocklistBasicConfig.tdparts = tdParts

\* ---- C13 ----

\* C13: when all downloads have succeeded, td is the parts td00, td01, ...
\* in ascending index (or td.txt alone), rd is rd.txt and ft is
\* filetag.json, whatever the order in which the fetches completed.
C13_TdInPartOrder ==
  (pc[1] \in {"settled", "done"} /\ outcome[1] \in {"ok", "triefail"})
    => /\ td = IF blocklistBasicConfig.tdparts <= -1
               THEN <<TdUrl>>
               ELSE [i \in 1..(blocklistBasicConfig.tdparts + 1)
                       |-> PartUrl(i - 1)]
       /\ rd = <<RdUrl>>
       /\ ft = <<FiletagUrl>>

\* td was assembled from parts of which a later one completed before an
\* earlier one, and rd.txt completed before filetag.json
C13_Witness ==
  /\ pc[1] = "done" /\ outcome[1] = "ok"
  /\ blocklistBasicConfig.tdparts >= 1
  /\ Len(td) = blocklistBasicConfig.tdparts + 1
  /\ \E i, j, k, l \in DOMAIN completed :
       /\ i < j /\ completed[i] = PartUrl(1) /\ completed[j] = PartUrl(0)
       /\ k < l /\ completed[k] = RdUrl /\ completed[l] = FiletagUrl

\* ---- C14 ----

\* C14: a call that started a construction is never in the wait loop and
\* never gets the timeout response: it returns only in the step in which
\* its own construction finishes, with the filter if that construction
\* succeeded and with the construction's error if it failed, however long
\* ago it started.
C14_BuilderNotTimed ==
  [][\A c \in Callers :
       (pc[c] \in {"fetch", "settled"} \/ (Arrives(c) /\ pc'[c] = "fetch"))
         => /\ pc'[c] \in {"fetch", "settled", "done"}
            /\ totalWaitms'[c] = 0
            /\ pc'[c] # "done" => response'[c] = emptyResponse
            /\ pc'[c] = "done"
                 => /\ Finishes(c)
                    /\ \A b \in Bufs : downloads[c][b] # "none"
                    /\ outcome[c] = "ok"
                         => /\ response'[c] = filterResponse
                            /\ blocklistFilter' = c
                    /\ outcome[c] # "ok"
                         => response'[c] =
                              errResponse("initBlocklistConstruction", c)]_vars

\* call 1's construction outlasted a waiter's whole timeout and the rebuild
\* threshold, then succeeded and returned the filter; the construction of
\* the last call, started past that threshold, returned its error
C14_Witness ==
  /\ pc[1] = "done" /\ response[1] = filterResponse /\ outcome[1] = "ok"
  /\ IsBuilder(NumCallers) /\ when[NumCallers] - when[1] > DownloadTimeout * 2
  /\ \E w \in Callers :
       /\ ~IsBuilder(w) /\ pc[w] = "done"
       /\ response[w].exceptionStack = "download timeout"
  /\ pc[NumCallers] = "done"
  /\ response[NumCallers] = errResponse("initBlocklistConstruction", NumCallers)

\* ---- C15 ----

\* c arrives while the filter is not set up and a construction is flagged
StalledAt(c) ==
  Arrives(c) /\ blocklistFilter = 0 /\ isBlocklistUnderConstruction

\* c starts a construction dated at its own arrival
Rebuilds(c) ==
  /\ pc'[c] = "fetch"
  /\ startTime' = now /\ when'[c] = now
  /\ isBlocklistUnderConstruction'
  /\ \A b \in Bufs : downloads'[c][b] = "pending"

\* c goes to wait and starts nothing
WaitsInstead(c) ==
  /\ pc'[c] = "sleep"
  /\ downloads'[c] = NoDownloads
  /\ UNCHANGED wrapperVars

C16_FlagIffInFlight ==
  isBlocklistUnderConstruction <=> InFlight # {}

\* ---- C17 ----

\* C17 as stated: after any sequence of load and set calls, envMap and the
\* global env object hold the same keys with the same values.
C17_ViewsEqual == envMap = env

\* ---- C18 ----

\* C18 as stated: get(key) called right after set(key, v) returns v,
\* whatever v is.
C18_GetAfterSet ==
  [][(called.op = "set" /\ called'.op = "get" /\ called'.key = called.key)
       => returned' = called.value]_vars

\* ---- C19 ----

\* the runtime defines the variable behind key
Defined(key) == MappedName(key, runtime) \in DOMAIN procEnv

TypeOK ==
  /\ now \in 0..MaxTime
  /\ startTime \in 0..MaxTime
  /\ blocklistFilter \in 0..NumCallers
  /\ {td, rd, ft} \subseteq {null} \cup {<<c>> : c \in Callers}
  /\ isBlocklistUnderConstruction \in BOOLEAN
  /\ pc \in [Callers -> {"idle", "fetch", "settled", "sleep", "done"}]
  /\ downloads \in [Callers -> [Bufs -> {"none", "pending", "ok", "fail"}]]
  /\ outcome \in [Callers -> {"none", "ok", "triefail", "fetchfail"}]
  /\ \A c \in Callers : totalWaitms[c] \in 0..(MaxSleeps * waitms)
====
